---- MODULE Spec2Model ----
(***************************************************************************)
(* Product search of stream.py: text normalisation, five per-field TF-IDF  *)
(* indexes built at import time, and get_relevant_products (ranking by     *)
(* weighted cosine similarity, numeric filters, image check).              *)
(*                                                                         *)
(* Representation.                                                         *)
(*  - A text is a sequence of characters; a character is a one-symbol      *)
(*    string of Alphabet.  A pandas cell is a tagged value: Str(s), Num(v) *)
(*    or NaN (the missing marker).                                         *)
(*  - Floating point numbers are fixed point: TF-IDF weights and cosines   *)
(*    are in hundredths (Scale), the field weights in hundredths, the      *)
(*    combined score in ten-thousandths.                                   *)
(***************************************************************************)
EXTENDS Integers, Sequences, FiniteSets, TLC

VARIABLES
    df,             \* the catalog, a sequence of rows (module global df)
    tfidf,          \* the five fitted vectorizers and their document matrices
    sort_order,     \* how this build's argsort orders equal keys
    pc,             \* per client: "idle", "returned" or "raised"
    args,           \* per client: the arguments of its last call
    similarities,   \* per client: the five per-field similarity arrays
    combined_similarities, \* per client: the combined score of every row
    top_indices,    \* per client: the ranked row numbers
    filtered_results, \* per client: the row numbers that passed the filters
    products,       \* per client: the list returned
    text,           \* normaliser harness: the input
    once,           \* normaliser harness: normalize(text)
    twice,          \* normaliser harness: normalize(normalize(text))
    npc             \* normaliser harness: "new", "once" or "twice"

vars == <<df, tfidf, sort_order, pc, args, similarities, combined_similarities,
          top_indices, filtered_results, products, text, once, twice, npc>>

(***************************************************************************)
(* Bounds of the model.                                                    *)
(***************************************************************************)
MaxLen == 3          \* longest text given to the normaliser harness
MaxQueryPieces == 2  \* a query is at most this many pieces of QueryPieces
MaxTopN == 3         \* top_n ranges over 0..MaxTopN and the default

(***************************************************************************)
(* Cells.                                                                  *)
(***************************************************************************)
NaN == [kind |-> "nan"]
Str(s) == [kind |-> "str", s |-> s]
Num(v) == [kind |-> "num", v |-> v]
isna(x) == x.kind = "nan"

(***************************************************************************)
(* Characters.  "I." is U+0130 (capital I with dot above), whose lower     *)
(* case is the two characters "i" and U+0307 (written "dot"); U+0307 is a  *)
(* combining mark, neither \w nor \s.                                      *)
(***************************************************************************)
LowerLetters == {"a", "c", "d", "e", "h", "i", "k", "l", "g", "p", "r", "t", "v"}
UpperLetters == {"R", "T", "L", "G", "I."}
Digits == {"4", "5", "7"}
Whitespace == {" "}
Punctuation == {"!", "-", "dot"}
Alphabet == LowerLetters \cup UpperLetters \cup Digits \cup {"_"} \cup Whitespace \cup Punctuation

\* str.lower() of one character
LowerChar(c) ==
    CASE c = "R" -> <<"r">>
      [] c = "T" -> <<"t">>
      [] c = "L" -> <<"l">>
      [] c = "G" -> <<"g">>
      [] c = "I." -> <<"i", "dot">>
      [] OTHER -> <<c>>

\* the class \w of re (Unicode): letters, digits and the underscore
IsWord(c) == c \in LowerLetters \cup UpperLetters \cup Digits \cup {"_"}
\* the class \s of re, which is also what str.strip() strips
IsSpace(c) == c \in Whitespace

RECURSIVE lower(_)
lower(s) == IF s = <<>> THEN <<>> ELSE LowerChar(Head(s)) \o lower(Tail(s))

\* re.sub(r'[^\w\s]', '', s)
RECURSIVE StripPunctuation(_)
StripPunctuation(s) ==
    IF s = <<>> THEN <<>>
    ELSE IF IsWord(Head(s)) \/ IsSpace(Head(s))
         THEN <<Head(s)>> \o StripPunctuation(Tail(s))
         ELSE StripPunctuation(Tail(s))

\* str(x) of a cell that is not missing
DigitOf == <<"0", "1", "2", "3", "4", "5", "6", "7", "8", "9">>
str(x) == IF x.kind = "str" THEN x.s ELSE <<DigitOf[x.v + 1]>>

\* normalisation with the punctuation removed before lowercasing
normalize_strip_first(x) ==
    IF isna(x) THEN <<>> ELSE lower(StripPunctuation(str(x)))

normalize_text_simple(x) ==
    IF isna(x) THEN <<>> ELSE StripPunctuation(lower(str(x)))

\* str.strip()
RECURSIVE LStrip(_)
LStrip(s) == IF s # <<>> /\ IsSpace(Head(s)) THEN LStrip(Tail(s)) ELSE s
RECURSIVE RStrip(_)
RStrip(s) ==
    IF s # <<>> /\ IsSpace(s[Len(s)]) THEN RStrip(SubSeq(s, 1, Len(s) - 1)) ELSE s
strip(s) == RStrip(LStrip(s))

(***************************************************************************)
(* Fixed point arithmetic.                                                 *)
(***************************************************************************)
Scale == 10 * 10   \* hundredths

\* the least r in lo..hi with r * r >= x
RECURSIVE SqrtSearch(_, _, _)
SqrtSearch(x, lo, hi) ==
    IF lo >= hi THEN lo
    ELSE LET mid == (lo + hi) \div 2
         IN  IF mid * mid >= x THEN SqrtSearch(x, lo, mid)
             ELSE SqrtSearch(x, mid + 1, hi)
\* the norm of a vector from its sum of squares, rounded up
CeilSqrt(x) == SqrtSearch(x, 0, 32768)

RECURSIVE SumSeq(_)
SumSeq(s) == IF s = <<>> THEN 0 ELSE Head(s) + SumSeq(Tail(s))

Dot(a, b) == SumSeq([j \in 1..Len(a) |-> a[j] * b[j]])
Norm(a) == CeilSqrt(Dot(a, a))

(***************************************************************************)
(* TfidfVectorizer (scikit-learn defaults): lowercase, tokens are the      *)
(* maximal runs of two or more \w characters, the vocabulary is the        *)
(* max_features most frequent terms in code point order, idf is            *)
(* ln((1 + n) / (1 + df)) + 1, rows are L2-normalised.                     *)
(***************************************************************************)
\* TfidfVectorizer(max_features=3000), scaled down with the catalog
max_features == 2

Code ==
    [c \in Alphabet |->
        CASE c = " " -> 32  [] c = "!" -> 33  [] c = "-" -> 45
          [] c = "4" -> 52  [] c = "5" -> 53  [] c = "7" -> 55
          [] c = "G" -> 71  [] c = "L" -> 76  [] c = "R" -> 82
          [] c = "T" -> 84  [] c = "_" -> 95  [] c = "a" -> 97
          [] c = "c" -> 99  [] c = "d" -> 100 [] c = "e" -> 101
          [] c = "g" -> 103 [] c = "h" -> 104 [] c = "i" -> 105
          [] c = "k" -> 107 [] c = "l" -> 108 [] c = "p" -> 112
          [] c = "r" -> 114 [] c = "t" -> 116 [] c = "v" -> 118
          [] c = "I." -> 304 [] c = "dot" -> 775]

\* a < b as Python compares strings
RECURSIVE LexLess(_, _)
LexLess(a, b) ==
    IF b = <<>> THEN FALSE
    ELSE IF a = <<>> THEN TRUE
    ELSE IF Head(a) = Head(b) THEN LexLess(Tail(a), Tail(b))
    ELSE Code[Head(a)] < Code[Head(b)]

\* re.findall(r"(?u)\b\w\w+\b", s), cur being the run of \w read so far
RECURSIVE TokScan(_, _)
TokScan(s, cur) ==
    LET flush == IF Len(cur) >= 2 THEN <<cur>> ELSE <<>>
    IN  IF s = <<>> THEN flush
        ELSE IF IsWord(Head(s)) THEN TokScan(Tail(s), Append(cur, Head(s)))
        ELSE flush \o TokScan(Tail(s), <<>>)
Tokenize(s) == TokScan(lower(s), <<>>)

\* how often term t occurs in the token list toks
TermCount(toks, t) == Cardinality({k \in 1..Len(toks) : toks[k] = t})

\* the terms of S in code point order
RECURSIVE SortTerms(_)
SortTerms(S) ==
    IF S = {} THEN <<>>
    ELSE LET m == CHOOSE t \in S : \A u \in S \ {t} : LexLess(t, u)
         IN  <<m>> \o SortTerms(S \ {m})

\* the k terms of S with the highest corpus count (_limit_features)
RECURSIVE TopTerms(_, _, _)
TopTerms(S, cnt, k) ==
    IF k = 0 \/ S = {} THEN {}
    ELSE LET m == CHOOSE t \in S : \A u \in S \ {t} :
                      cnt[t] > cnt[u] \/ (cnt[t] = cnt[u] /\ LexLess(t, u))
         IN  {m} \cup TopTerms(S \ {m}, cnt, k - 1)

\* floor(100 * ln(m)) for m = 1..8
Ln100 == <<0, 69, 109, 138, 160, 179, 194, 207>>

\* L2 normalisation of a row
Normalize(t) ==
    LET n == Norm(t)
    IN  [j \in 1..Len(t) |-> IF n = 0 THEN 0 ELSE (Scale * t[j]) \div n]

\* vectorizer.transform([s]) with a fitted vocabulary and idf
Transform(vec, s) ==
    LET toks == Tokenize(s)
    IN  Normalize([j \in 1..Len(vec.vocabulary) |->
                      TermCount(toks, vec.vocabulary[j]) * vec.idf[j]])

\* vectorizer.fit_transform(corpus)
FitTransform(corpus) ==
    LET n     == Len(corpus)
        toks  == [i \in 1..n |-> Tokenize(corpus[i])]
        terms == UNION {{toks[i][k] : k \in 1..Len(toks[i])} : i \in 1..n}
        cnt   == [t \in terms |-> SumSeq([i \in 1..n |-> TermCount(toks[i], t)])]
        vocab == SortTerms(TopTerms(terms, cnt, max_features))
        dfreq == [j \in 1..Len(vocab) |->
                    Cardinality({i \in 1..n : TermCount(toks[i], vocab[j]) > 0})]
        idf   == [j \in 1..Len(vocab) |-> Scale + Ln100[1 + n] - Ln100[1 + dfreq[j]]]
        vec   == [vocabulary |-> vocab, idf |-> idf]
        rows  == [i \in 1..n |-> Transform(vec, corpus[i])]
    IN  [vocabulary |-> vocab, idf |-> idf, matrix |-> rows,
         \* the norms of the rows, which cosine_similarity computes at each call
         norms |-> [i \in 1..n |-> Norm(rows[i])]]

(***************************************************************************)
(* The catalog (cleaned_data.csv after drop_duplicates), scaled down to    *)
(* five rows.  Every text column has at least max_features distinct terms, *)
(* as the real catalog has, so the five vocabularies have the same size.   *)
(***************************************************************************)
sp == <<" ">>
Red == <<"R", "e", "d">>
red == <<"r", "e", "d">>
tv == <<"t", "v">>
hd == <<"h", "d">>
av == <<"a", "v">>
pc_ == <<"p", "c">>
lg == <<"l", "g">>
hp == <<"h", "p">>
k4 == <<"4", "k">>

\* an image cell: text that eval() turns into a list (of URLs), into a number,
\* or that eval() cannot parse
ListText(urls) == [kind |-> "str", parses |-> "list", items |-> urls]
IntText(n) == [kind |-> "str", parses |-> "int", n |-> n]
BadText == [kind |-> "str", parses |-> "error"]

Catalog == <<
    [product_name |-> Str(Red \o sp \o tv), product_category_tree |-> Str(av \o sp \o tv),
     brand |-> Str(<<"L", "G">>), description |-> Str(hd \o sp \o tv),
     extracted_specifications |-> Str(hd),
     retail_price |-> Num(100), discounted_price |-> Num(80),
     product_rating |-> Str(<<"4">>), image |-> ListText(<<"i1">>), product_url |-> "u1"],
    [product_name |-> Str(red \o sp \o tv \o <<"!">>), product_category_tree |-> Str(av \o sp \o tv),
     brand |-> Str(lg), description |-> Str(hd \o sp \o tv),
     extracted_specifications |-> Str(hd),
     retail_price |-> Num(0), discounted_price |-> Num(10),
     product_rating |-> Str(<<"-">>), image |-> ListText(<<"i2", "i2b">>), product_url |-> "u2"],
    [product_name |-> Str(hd \o sp \o tv), product_category_tree |-> Str(av),
     brand |-> Str(hp), description |-> NaN,
     extracted_specifications |-> NaN,
     retail_price |-> Num(50), discounted_price |-> Num(50),
     product_rating |-> Num(3), image |-> BadText, product_url |-> "u3"],
    [product_name |-> Str(red \o sp \o pc_), product_category_tree |-> Str(pc_),
     brand |-> Str(hp), description |-> Str(pc_),
     extracted_specifications |-> Str(k4 \o sp \o hd),
     retail_price |-> Num(200), discounted_price |-> Num(150),
     product_rating |-> NaN, image |-> IntText(5), product_url |-> "u4"],
    [product_name |-> Str(pc_ \o sp \o tv), product_category_tree |-> Str(av),
     brand |-> Str(lg), description |-> Str(hd),
     extracted_specifications |-> NaN,
     retail_price |-> NaN, discounted_price |-> NaN,
     product_rating |-> Str(<<"5">>), image |-> NaN, product_url |-> "u5"] >>

Fields == {"name", "category", "brand", "description", "specifications"}

\* the df column a field's vectorizer was fitted on
Column(row, f) ==
    CASE f = "name" -> row.product_name
      [] f = "category" -> row.product_category_tree
      [] f = "brand" -> row.brand
      [] f = "description" -> row.description
      [] f = "specifications" -> row.extracted_specifications

\* the five normalized_* columns, then the five fit_transform calls
BuildIndex(d) ==
    [f \in Fields |->
        FitTransform([i \in 1..Len(d) |-> normalize_text_simple(Column(d[i], f))])]

\* the weights, in hundredths
weights ==
    [name |-> 40, category |-> 20, brand |-> 15, description |-> 15, specifications |-> 10]

\* sum of w over the fields
FieldSum(w) == w["name"] + w["category"] + w["brand"] + w["description"] + w["specifications"]

(***************************************************************************)
(* get_weighted_tfidf_vector: the query is transformed by each vectorizer  *)
(* and the five 1 x max_features rows are added, column by column, into    *)
(* one row.  Adding sparse rows of different widths raises ValueError.     *)
(***************************************************************************)
get_weighted_tfidf_vector(index, query) ==
    LET q    == normalize_text_simple(Str(query))
        qv   == [f \in Fields |-> Transform(index[f], q)]
        wide == Len(qv["name"])
    IN  IF \E f \in Fields : Len(qv[f]) # wide
        THEN [ok |-> FALSE, v |-> <<>>]
        ELSE [ok |-> TRUE,
              v |-> [j \in 1..wide |-> FieldSum([f \in Fields |-> weights[f] * qv[f][j]])]]

\* the dot product of the rows, neither of them normalised
Cosine_unnormalised(a, na, b, nb) == Dot(a, b)

\* cosine_similarity of the rows a and b with norms na and nb, in hundredths;
\* 0 when either row is all zero
Cosine(a, na, b, nb) ==
    IF na = 0 \/ nb = 0 THEN 0 ELSE (Scale * Dot(a, b)) \div (na * nb)

\* cosine_similarity(query_vector, matrix).flatten(), fitted being the
\* vectorizer's record with the matrix
cosine_similarity(v, fitted) ==
    LET nv == Norm(v)
    IN  [i \in 1..Len(fitted.matrix) |-> Cosine(v, nv, fitted.matrix[i], fitted.norms[i])]

\* combined_similarities of the n rows
combine(sim, n) == [i \in 1..n |-> FieldSum([f \in Fields |-> weights[f] * sim[f][i]])]

(***************************************************************************)
(* Ranking.                                                                *)
(***************************************************************************)
\* position of row i in the sequence order
RECURSIVE PosIn(_, _)
PosIn(order, i) == IF Head(order) = i THEN 1 ELSE 1 + PosIn(Tail(order), i)

\* keys.argsort(): the row numbers by ascending key; equal keys come in the
\* order the build's sort leaves them in (order; 1..n for a stable sort)
RECURSIVE SortRows(_, _, _)
SortRows(S, keys, order) ==
    IF S = {} THEN <<>>
    ELSE LET m == CHOOSE i \in S : \A j \in S \ {i} :
                      \/ keys[i] < keys[j]
                      \/ keys[i] = keys[j] /\ PosIn(order, i) < PosIn(order, j)
         IN  <<m>> \o SortRows(S \ {m}, keys, order)
argsort(keys, order) == SortRows(1..Len(keys), keys, order)

\* a[start:] of Python
SliceFrom(a, start) ==
    LET n == Len(a)
        s == IF start < 0 THEN (IF n + start < 0 THEN 0 ELSE n + start)
             ELSE (IF start > n THEN n ELSE start)
    IN  SubSeq(a, s + 1, n)

\* a[::-1]
Reverse(a) == [k \in 1..Len(a) |-> a[Len(a) + 1 - k]]

\* argsort()[-top_n:] without the reversal
top_rows_ascending(keys, order, top_n) == SliceFrom(argsort(keys, order), -top_n)

\* combined_similarities.argsort()[-top_n:][::-1]
top_rows(keys, order, top_n) == Reverse(SliceFrom(argsort(keys, order), -top_n))

(***************************************************************************)
(* Numeric columns and filters.                                            *)
(***************************************************************************)
DigitValue(c) == CHOOSE v \in 0..9 : DigitOf[v + 1] = c
IsDigit(c) == \E v \in 0..9 : DigitOf[v + 1] = c

RECURSIVE ParseDigits(_, _)
ParseDigits(s, acc) ==
    IF s = <<>> THEN acc ELSE ParseDigits(Tail(s), 10 * acc + DigitValue(Head(s)))

\* pd.to_numeric(x, errors='coerce') of one cell
to_numeric(x) ==
    IF x.kind = "num" THEN x
    ELSE IF x.kind = "str" /\ x.s # <<>> /\ \A k \in 1..Len(x.s) : IsDigit(x.s[k])
         THEN Num(ParseDigits(x.s, 0))
         ELSE NaN

\* a percentage kept as the exact fraction num / den, den > 0
Frac(num, den) == [kind |-> "num", num |-> num, den |-> den]

\* calculate_discount_percentage; a comparison with NaN is False and
\* arithmetic on NaN is NaN
calculate_discount_percentage(row) ==
    IF ~isna(row.retail_price) /\ row.retail_price.v > 0
    THEN IF isna(row.discounted_price) THEN NaN
         ELSE Frac(100 * (row.retail_price.v - row.discounted_price.v), row.retail_price.v)
    ELSE NaN

\* series.fillna(v) of one cell
fillna(x, v) == IF isna(x) THEN v ELSE x

\* the mask without the isna() alternatives
mask_sentinels_only(row, rating, discount, max_price, min_discount, min_rating) ==
    /\ fillna(row.discounted_price, Num(max_price + 1)).v <= max_price
    /\ LET d == fillna(discount, Frac(-1, 1)) IN d.num >= min_discount * d.den
    /\ fillna(rating, Num(-1)).v >= min_rating

\* the boolean mask of filtered_results for one row of results, rating being
\* its coerced product_rating and discount its discount_percentage
mask(row, rating, discount, max_price, min_discount, min_rating) ==
    /\ \/ fillna(row.discounted_price, Num(max_price + 1)).v <= max_price
       \/ isna(row.discounted_price)
    /\ \/ LET d == fillna(discount, Frac(-1, 1)) IN d.num >= min_discount * d.den
       \/ isna(discount)
    /\ \/ fillna(rating, Num(-1)).v >= min_rating
       \/ isna(rating)

(***************************************************************************)
(* The image loop.                                                         *)
(***************************************************************************)
\* try: eval(cell) except: [] -- eval raises for a cell that is not a string
\* (TypeError) and for text that does not parse (SyntaxError)
eval_or_empty(cell) ==
    IF isna(cell) \/ cell.parses = "error" THEN [type |-> "list", items |-> <<>>]
    ELSE IF cell.parses = "list" THEN [type |-> "list", items |-> cell.items]
    ELSE [type |-> "int", n |-> cell.n]

\* bool(value)
truthy(value) == IF value.type = "list" THEN value.items # <<>> ELSE value.n # 0

\* the loop over filtered_results.iterrows(): the products appended, or the
\* TypeError that image_urls[0] raises when image_urls is not subscriptable
RECURSIVE image_loop(_, _, _)
image_loop(d, rows, acc) ==
    IF rows = <<>> THEN [raised |-> FALSE, products |-> acc]
    ELSE LET row == d[Head(rows)]
             image_urls == eval_or_empty(row.image)
         IN  IF ~truthy(image_urls) THEN image_loop(d, Tail(rows), acc)
             ELSE IF image_urls.type # "list" THEN [raised |-> TRUE, products |-> <<>>]
             ELSE image_loop(d, Tail(rows),
                      Append(acc, [image |-> image_urls.items[1],
                                   name |-> row.product_name,
                                   price |-> row.discounted_price,
                                   url |-> row.product_url]))

(***************************************************************************)
(* get_relevant_products, as a function of the globals it reads (d: df,    *)
(* index: the vectorizers and matrices, order: the build's argsort order)  *)
(* and of its arguments a.  The result records the locals the properties   *)
(* below speak of.                                                         *)
(***************************************************************************)
NoSimilarities == [f \in Fields |-> <<>>]

Outcome(status, sim, comb, top, filtered, prods) ==
    [status |-> status, similarities |-> sim, combined_similarities |-> comb,
     top_indices |-> top, filtered_results |-> filtered, products |-> prods]

get_relevant_products(d, index, order, a) ==
    IF strip(a.query) = <<>>
    THEN Outcome("returned", NoSimilarities, <<>>, <<>>, <<>>, <<>>)
    ELSE
    LET query_vector == get_weighted_tfidf_vector(index, a.query)
    IN  IF ~query_vector.ok
        THEN Outcome("raised", NoSimilarities, <<>>, <<>>, <<>>, <<>>)
        ELSE
        LET sim  == [f \in Fields |-> cosine_similarity(query_vector.v, index[f])]
            comb == combine(sim, Len(d))
            top  == top_rows(comb, order, a.top_n)
            pass(i) == mask(d[i], to_numeric(d[i].product_rating),
                            calculate_discount_percentage(d[i]),
                            a.max_price, a.min_discount, a.min_rating)
            filtered == SelectSeq(top, pass)
            loop == image_loop(d, filtered, <<>>)
        IN  Outcome(IF loop.raised THEN "raised" ELSE "returned",
                    sim, comb, top, filtered, loop.products)

\* df after results['product_rating'] = ... had results been a view of df
assign_through_view(d, top) ==
    [i \in 1..Len(d) |->
        IF \E k \in 1..Len(top) : top[k] = i
        THEN [d[i] EXCEPT !.product_rating = to_numeric(@)]
        ELSE d[i]]

\* df after the column assignments to results: results is
\* df.iloc[top_indices].copy(), so df keeps its cells
assign_to_copy(d, top) == d

(***************************************************************************)
(* Inputs.                                                                 *)
(***************************************************************************)
Clients == {1, 2}

QueryPieces == {Red, sp \o tv, sp, <<"!">>}
RECURSIVE QueriesOf(_)
QueriesOf(k) ==
    IF k = 0 THEN {<<>>}
    ELSE LET S == QueriesOf(k - 1) IN S \cup {q \o w : q \in S, w \in QueryPieces}
Queries == QueriesOf(MaxQueryPieces)

DefaultTopN == 12
TopNs == (0..MaxTopN) \cup {DefaultTopN}
MaxPrices == {60, 99999}
MinDiscounts == {-5, 0, 10}
MinRatings == {0, 4}

\* the inputs of the two-client specification
ConcQueries == {red, tv, <<"!">>}
ConcTopNs == {2, DefaultTopN}
ConcMinDiscounts == {0}

\* orders in which a build's argsort may leave equal keys: the stable one,
\* its reverse, and a scrambled one
SortBuilds == {<<1, 2, 3, 4, 5>>, <<5, 4, 3, 2, 1>>, <<2, 4, 1, 5, 3>>}

Texts ==
    {NaN, Num(7)} \cup
    {Str(s) : s \in UNION {[1..n -> {"a", "R", "I.", "dot", "7", "_", "!", " "}] : n \in 0..MaxLen}}

(***************************************************************************)
(* Actions.                                                                *)
(***************************************************************************)
Idle == [query |-> <<>>, max_price |-> 0, min_discount |-> 0, min_rating |-> 0, top_n |-> 0]

\* the /search endpoint calling get_relevant_products
search(p, query, max_price, min_discount, min_rating, top_n) ==
    /\ pc[p] = "idle"
    /\ LET a == [query |-> query, max_price |-> max_price, min_discount |-> min_discount,
                 min_rating |-> min_rating, top_n |-> top_n]
       IN  \E r \in {get_relevant_products(df, tfidf, sort_order, a)} :
           /\ args' = [args EXCEPT ![p] = a]
           /\ pc' = [pc EXCEPT ![p] = r.status]
           /\ similarities' = [similarities EXCEPT ![p] = r.similarities]
           /\ combined_similarities' =
                  [combined_similarities EXCEPT ![p] = r.combined_similarities]
           /\ top_indices' = [top_indices EXCEPT ![p] = r.top_indices]
           /\ filtered_results' = [filtered_results EXCEPT ![p] = r.filtered_results]
           /\ products' = [products EXCEPT ![p] = r.products]
           /\ df' = assign_to_copy(df, r.top_indices)
    /\ UNCHANGED <<tfidf, sort_order, text, once, twice, npc>>

\* the response (or the error) has gone to the client: its locals are dropped
respond(p) ==
    /\ pc[p] # "idle"
    /\ pc' = [pc EXCEPT ![p] = "idle"]
    /\ args' = [args EXCEPT ![p] = Idle]
    /\ similarities' = [similarities EXCEPT ![p] = NoSimilarities]
    /\ combined_similarities' = [combined_similarities EXCEPT ![p] = <<>>]
    /\ top_indices' = [top_indices EXCEPT ![p] = <<>>]
    /\ filtered_results' = [filtered_results EXCEPT ![p] = <<>>]
    /\ products' = [products EXCEPT ![p] = <<>>]
    /\ UNCHANGED <<df, tfidf, sort_order, text, once, twice, npc>>

\* normalize_text_simple applied to the input
normalize_once ==
    /\ npc = "new"
    /\ once' = normalize_text_simple(text)
    /\ npc' = "once"
    /\ UNCHANGED <<df, tfidf, sort_order, pc, args, similarities, combined_similarities,
                   top_indices, filtered_results, products, text, twice>>

\* normalize_text_simple applied to its own output
normalize_twice ==
    /\ npc = "once"
    /\ twice' = normalize_text_simple(Str(once))
    /\ npc' = "twice"
    /\ UNCHANGED <<df, tfidf, sort_order, pc, args, similarities, combined_similarities,
                   top_indices, filtered_results, products, text, once>>

(***************************************************************************)
(* Specifications.                                                         *)
(***************************************************************************)
\* the state after import: lines 15-48 have run, no request is in progress
InitServer ==
    /\ df = Catalog
    /\ tfidf = BuildIndex(Catalog)
    /\ sort_order \in SortBuilds
    /\ pc = [p \in Clients |-> "idle"]
    /\ args = [p \in Clients |-> Idle]
    /\ similarities = [p \in Clients |-> NoSimilarities]
    /\ combined_similarities = [p \in Clients |-> <<>>]
    /\ top_indices = [p \in Clients |-> <<>>]
    /\ filtered_results = [p \in Clients |-> <<>>]
    /\ products = [p \in Clients |-> <<>>]

Init ==
    /\ InitServer
    /\ text = NaN /\ once = <<>> /\ twice = <<>> /\ npc = "off"

\* one client, every input
Next ==
    \/ \E q \in Queries, mp \in MaxPrices, md \in MinDiscounts, mr \in MinRatings, n \in TopNs :
           search(1, q, mp, md, mr, n)
    \/ respond(1)

Spec == Init /\ [][Next]_vars

\* two clients whose requests the event loop serves one at a time, in any order
NextConc ==
    \/ \E p \in Clients, q \in ConcQueries, mp \in MaxPrices, md \in ConcMinDiscounts,
          mr \in MinRatings, n \in ConcTopNs :
           search(p, q, mp, md, mr, n)
    \/ \E p \in Clients : respond(p)

SpecConc == Init /\ [][NextConc]_vars

\* the normaliser applied twice to every text up to MaxLen characters
InitNorm ==
    /\ InitServer
    /\ text \in Texts /\ once = <<>> /\ twice = <<>> /\ npc = "new"

NextNorm == normalize_once \/ normalize_twice

SpecNorm == InitNorm /\ [][NextNorm]_vars

(***************************************************************************)
(* Vocabulary of the properties.                                           *)
(***************************************************************************)
N == Len(Catalog)
Called(p) == pc[p] # "idle"
Ranked(p) == Called(p) /\ combined_similarities[p] # <<>>
Blank(q) == strip(q) = <<>>
\* the query has a non-empty normalized form
HasText(q) == ~Blank(normalize_text_simple(Str(q)))
RowOfUrl(u) == CHOOSE i \in 1..N : Catalog[i].product_url = u
\* the catalog rows of the returned products, in the order returned
ProductRows(p) == [k \in 1..Len(products[p]) |-> RowOfUrl(products[p][k].url)]
Elems(a) == {a[k] : k \in 1..Len(a)}
Min(x, y) == IF x < y THEN x ELSE y

\* a is b with some elements left out
RECURSIVE IsSubseq(_, _)
IsSubseq(a, b) ==
    IF a = <<>> THEN TRUE
    ELSE IF b = <<>> THEN FALSE
    ELSE IF Head(a) = Head(b) THEN IsSubseq(Tail(a), Tail(b))
    ELSE IsSubseq(a, Tail(b))

(***************************************************************************)
(* C1: a query whose normalized form is empty (blank, whitespace only or   *)
(* punctuation only) returns the empty list, no catalog row being ranked,  *)
(* whatever max_price, min_discount, min_rating and top_n are (stated for  *)
(* top_n >= 1, where the slice takes at most top_n rows, and for what the  *)
(* caller sees when the call returns: the returned list).                  *)
(***************************************************************************)
C1_EmptyNormalizedQueryReturnsEmpty ==
    \A p \in Clients :
        pc[p] = "returned" /\ ~HasText(args[p].query) /\ args[p].top_n >= 1
            => products[p] = <<>>

(***************************************************************************)
(* C2: a ranked row passes the numeric filters iff its discounted price is *)
(* absent or <= max_price, its discount percentage is absent or            *)
(* >= min_discount, and its rating is absent or >= min_rating; the         *)
(* discount percentage is absent when retail_price is not > 0 (or the      *)
(* discounted price is absent), the rating when it is not numeric.  A row  *)
(* with retail_price 0 is never excluded by min_discount.                  *)
(***************************************************************************)
PriceOk(row, a) ==
    IF row.discounted_price.kind = "num" THEN row.discounted_price.v <= a.max_price ELSE TRUE
DiscountOk(row, a) ==
    IF /\ row.retail_price.kind = "num" /\ row.retail_price.v > 0
       /\ row.discounted_price.kind = "num"
    THEN 100 * (row.retail_price.v - row.discounted_price.v) >= a.min_discount * row.retail_price.v
    ELSE TRUE
RatingOk(row, a) ==
    LET r == to_numeric(row.product_rating)
    IN  IF r.kind = "num" THEN r.v >= a.min_rating ELSE TRUE

C2_FilterRule ==
    \A p \in Clients : Ranked(p) =>
        /\ Elems(filtered_results[p]) \subseteq Elems(top_indices[p])
        /\ \A i \in Elems(top_indices[p]) :
               i \in Elems(filtered_results[p])
                   <=> PriceOk(df[i], args[p]) /\ DiscountOk(df[i], args[p]) /\ RatingOk(df[i], args[p])

\* a row with retail_price 0 kept under min_discount 10 while another row is
\* excluded by it, and a row with a non-numeric rating kept under min_rating 4
C2_Witness ==
    \E p \in Clients :
        /\ Ranked(p) /\ args[p].min_discount = 10 /\ args[p].min_rating = 4
        /\ 2 \in Elems(filtered_results[p])
        /\ 3 \in Elems(top_indices[p]) \ Elems(filtered_results[p])
        /\ 1 \in Elems(filtered_results[p])

(***************************************************************************)
(* C3: for a non-blank query the returned list is no longer than top_n and *)
(* no longer than min(top_n, catalog size), top_n = 0 included (stated for *)
(* queries that are not blank after normalization either).                 *)
(***************************************************************************)
C3_ResultSizeBound ==
    \A p \in Clients :
        pc[p] = "returned" /\ HasText(args[p].query)
            => /\ Len(products[p]) <= args[p].top_n
               /\ Len(products[p]) <= Min(args[p].top_n, N)

\* C3 outside the top_n = 0 case: the bound holds for every top_n >= 1
C3_ResultSizeBoundPositiveTopN ==
    \A p \in Clients :
        pc[p] = "returned" /\ args[p].top_n >= 1
            => Len(products[p]) <= Min(args[p].top_n, N)

(***************************************************************************)
(* C4: of two rows with the same combined score that both appear in the    *)
(* result, the one with the lower catalog index comes first.               *)
(***************************************************************************)
C4_TiesAscendingIndex ==
    \A p \in Clients : pc[p] = "returned" /\ HasText(args[p].query) /\ args[p].top_n >= 1 =>
        \A k, l \in 1..Len(products[p]) :
            k < l /\ combined_similarities[p][ProductRows(p)[k]]
                       = combined_similarities[p][ProductRows(p)[l]]
                => ProductRows(p)[k] < ProductRows(p)[l]

(***************************************************************************)
(* C4 as amended: of two rows with the same combined score that both       *)
(* appear in the result, the one argsort leaves later among equal keys     *)
(* comes first (for a stable argsort: the one with the higher index).      *)
(***************************************************************************)
C4_TiesReverseSortOrder ==
    \A p \in Clients : pc[p] = "returned" =>
        \A k, l \in 1..Len(products[p]) :
            k < l /\ combined_similarities[p][ProductRows(p)[k]]
                       = combined_similarities[p][ProductRows(p)[l]]
                => PosIn(sort_order, ProductRows(p)[k]) > PosIn(sort_order, ProductRows(p)[l])

\* rows 1 and 2 returned with the same non-zero score
C4_Witness ==
    \E p \in Clients :
        /\ pc[p] = "returned"
        /\ {1, 2} \subseteq Elems(ProductRows(p))
        /\ combined_similarities[p][1] = combined_similarities[p][2]
        /\ combined_similarities[p][1] > 0

(***************************************************************************)
(* C5: a ranked row whose image is not a valid encoding of a list of URLs  *)
(* (unparseable, missing, or text that parses to a number) never makes the *)
(* search raise: exactly the rows with such an image are left out and the  *)
(* other rows that passed the filters are returned (stated for queries     *)
(* with a non-empty normalized form and top_n >= 1).                       *)
(***************************************************************************)
HasUrlList(i) ==
    df[i].image.kind = "str" /\ df[i].image.parses = "list" /\ df[i].image.items # <<>>

C5_MalformedImageOmitted ==
    \A p \in Clients : Called(p) /\ HasText(args[p].query) /\ args[p].top_n >= 1 =>
        /\ pc[p] = "returned"
        /\ ProductRows(p) = SelectSeq(filtered_results[p], HasUrlList)

(***************************************************************************)
(* C6: normalize_text_simple is idempotent: normalize(normalize(x)) equals *)
(* normalize(x) for every text x, the missing marker included.             *)
(***************************************************************************)
C6_NormalizeIdempotent == npc = "twice" => twice = once

\* a text with upper case and punctuation whose normal form is not empty
C6_Witness ==
    /\ npc = "twice" /\ text.kind = "str"
    /\ \E k \in 1..Len(text.s) : text.s[k] = "I."
    /\ \E k \in 1..Len(text.s) : text.s[k] = "!"
    /\ once # <<>> /\ once # text.s

(***************************************************************************)
(* C7: a search never modifies the catalog or the five indexes, and under  *)
(* any interleaving of searches each search returns what it returns when   *)
(* run alone on the imported catalog with the same arguments.              *)
(***************************************************************************)
ImportedIndex == BuildIndex(Catalog)
Alone(a, order) == get_relevant_products(Catalog, ImportedIndex, order, a)

C7_SearchesIndependent ==
    /\ [][df' = df /\ tfidf' = tfidf]_vars
    /\ [](\A p \in Clients : Called(p) =>
             LET r == Alone(args[p], sort_order)
             IN  pc[p] = r.status /\ products[p] = r.products)

\* both clients have a finished search at once, for different queries, one of
\* them with a row whose rating text was coerced
C7_Witness ==
    /\ pc[1] = "returned" /\ pc[2] = "returned"
    /\ args[1].query # args[2].query
    /\ products[1] # <<>> /\ products[2] # <<>>
    /\ 1 \in Elems(top_indices[1])

(***************************************************************************)
(* C8: the field weights sum to 1, and a row whose similarity to the query *)
(* is non-zero in exactly one field f has a combined score <= the weight   *)
(* of f; every combined score lies in [0, 1].                              *)
(***************************************************************************)
NonZeroFields(p, i) == {f \in Fields : similarities[p][f][i] # 0}

TermsOf(s) == Elems(Tokenize(s))
SharedTerms(q, i, f) ==
    TermsOf(normalize_text_simple(Str(q)))
        \cap TermsOf(normalize_text_simple(Column(df[i], f)))
        \cap Elems(tfidf[f].vocabulary)

C9_FieldSimilarityOwnVocabulary ==
    \A p \in Clients :
        Called(p) /\ HasText(args[p].query) /\ args[p].top_n >= 1 =>
            /\ Ranked(p)
            /\ \A f \in Fields, i \in 1..N :
                   SharedTerms(args[p].query, i, f) = {} => similarities[p][f][i] = 0

(***************************************************************************)
(* C10: the returned list is an order-preserving subsequence of the top_n  *)
(* ranking: scores do not increase along it, and it holds only rows among  *)
(* the top_n highest-scoring ones, in their ranking order (stated for      *)
(* queries with a non-empty normalized form).                              *)
(***************************************************************************)
\* the catalog rows by descending combined score, as this build ranks them
Ranking(p) == Reverse(argsort(combined_similarities[p], sort_order))

C10_SubsequenceOfTopN ==
    \A p \in Clients : pc[p] = "returned" /\ Ranked(p) /\ HasText(args[p].query) =>
        /\ IsSubseq(ProductRows(p), SubSeq(Ranking(p), 1, Min(args[p].top_n, N)))
        /\ \A k, l \in 1..Len(products[p]) :
               k < l => combined_similarities[p][ProductRows(p)[k]]
                           >= combined_similarities[p][ProductRows(p)[l]]

\* C10 outside the top_n = 0 case: for top_n >= 1 the returned rows are a
\* subsequence of the top_n ranking
C10_SubsequenceOfTopNPositiveTopN ==
    \A p \in Clients : pc[p] = "returned" /\ Ranked(p) /\ args[p].top_n >= 1 =>
        IsSubseq(ProductRows(p), SubSeq(Ranking(p), 1, Min(args[p].top_n, N)))

====
